---------------------------- MODULE Spec2Model ----------------------------
(***************************************************************************)
(* Model of data_cleaning.py: the e-commerce order cleaning pipeline       *)
(* (load_data, clean_data, generate_data_profile, save_cleaned_data, main).*)
(*                                                                         *)
(* A DataFrame is a record [columns, dtype, rows]; a row carries its index *)
(* label and one cell per column.  A cell is NaN, NaT, a number (an exact  *)
(* rational n/d standing for the float64 the code computes with), a string *)
(* (a tuple of one-character strings, so that the code's character-level   *)
(* operations can be carried out) or a Timestamp.                          *)
(*                                                                         *)
(* pandas semantics are those of pandas 1.x / 2.x, which the script was    *)
(* written for (inplace fillna on a column selection updates the frame).   *)
(***************************************************************************)
EXTENDS Integers, Sequences, FiniteSets, TLC

VARIABLES
    raw,          \* raw_ecommerce_data.csv as read_csv would load it, or None
    pc,           \* position of the run
    df,           \* the frame being cleaned (clean_data's df)
    mean_amount,  \* clean_data's local mean_amount
    std_amount,   \* clean_data's local std_amount
    cleaned_df,   \* the frames clean_data has returned, in call order
    output,       \* cleaned_ecommerce_data.csv, or None while unwritten
    error         \* the exception that escaped, or "none"

vars == <<raw, pc, df, mean_amount, std_amount, cleaned_df, output, error>>

---------------------------------------------------------------------------
(* Cell values *)

None == [none |-> TRUE]
NaN == [t |-> "NaN"]
NaT == [t |-> "NaT"]
Str(s) == [t |-> "str", s |-> s]
Timestamp(y, m, d) == [t |-> "ts", y |-> y, m |-> m, d |-> d]

IsNull(v) == v.t \in {"NaN", "NaT"}
IsNum(v) == v.t = "num"
IsStr(v) == v.t = "str"

---------------------------------------------------------------------------
(* Exact rational arithmetic for the numeric cells *)

AbsInt(a) == IF a < 0 THEN -a ELSE a

RECURSIVE GCD(_, _)
GCD(a, b) == IF b = 0 THEN a ELSE GCD(b, a % b)

Rat(n, d) ==
    LET g == GCD(AbsInt(n), AbsInt(d))
        s == IF d < 0 THEN -1 ELSE 1
    IN  [t |-> "num", n |-> (s * n) \div g, d |-> (s * d) \div g]

Num(k) == [t |-> "num", n |-> k, d |-> 1]

RAdd(a, b) == Rat(a.n * b.d + b.n * a.d, a.d * b.d)
RSub(a, b) == Rat(a.n * b.d - b.n * a.d, a.d * b.d)
RMul(a, b) == Rat(a.n * b.n, a.d * b.d)
RDiv(a, b) == Rat(a.n * b.d, a.d * b.n)
RLe(a, b) == a.n * b.d <= b.n * a.d
RLt(a, b) == a.n * b.d < b.n * a.d
RAbs(a) == [a EXCEPT !.n = AbsInt(a.n)]

RECURSIVE RSum(_)
RSum(xs) == IF xs = <<>> THEN Num(0) ELSE RAdd(Head(xs), RSum(Tail(xs)))

---------------------------------------------------------------------------
(* Characters and strings *)

lowers == <<"a", "b", "c", "d", "e", "f", "g", "h", "i", "j", "k", "l", "m",
            "n", "o", "p", "q", "r", "s", "t", "u", "v", "w", "x", "y", "z">>
uppers == <<"A", "B", "C", "D", "E", "F", "G", "H", "I", "J", "K", "L", "M",
            "N", "O", "P", "Q", "R", "S", "T", "U", "V", "W", "X", "Y", "Z">>
digits == <<"0", "1", "2", "3", "4", "5", "6", "7", "8", "9">>

Range(s) == {s[i] : i \in DOMAIN s}
IndexOf(c, s) == CHOOSE i \in DOMAIN s : s[i] = c

IsLowerChar(c) == c \in Range(lowers)
IsUpperChar(c) == c \in Range(uppers)
IsLetter(c) == IsLowerChar(c) \/ IsUpperChar(c)
IsDigit(c) == c \in Range(digits)
IsSpace(c) == c = " "

ToLower(c) == IF IsUpperChar(c) THEN lowers[IndexOf(c, uppers)] ELSE c
ToUpper(c) == IF IsLowerChar(c) THEN uppers[IndexOf(c, lowers)] ELSE c

\* str.lower()
Lower(s) == [i \in DOMAIN s |-> ToLower(s[i])]

\* str.title(): a letter that follows a letter is lowered, any other letter
\* is raised, everything else is kept
Title(s) ==
    [i \in DOMAIN s |->
        IF ~IsLetter(s[i]) THEN s[i]
        ELSE IF i > 1 /\ IsLetter(s[i - 1]) THEN ToLower(s[i])
        ELSE ToUpper(s[i])]

\* str.strip()
RECURSIVE LStrip(_)
LStrip(s) == IF s # <<>> /\ IsSpace(Head(s)) THEN LStrip(Tail(s)) ELSE s
RECURSIVE RStrip(_)
RStrip(s) ==
    IF s # <<>> /\ IsSpace(s[Len(s)]) THEN RStrip(SubSeq(s, 1, Len(s) - 1)) ELSE s
Strip(s) == RStrip(LStrip(s))

\* re.sub(r'[^\d]', '', s)
DigitsOnly(s) == SelectSeq(s, IsDigit)

---------------------------------------------------------------------------
(* pd.to_datetime(..., errors='coerce') on one value.  The strings of the  *)
(* model are either ISO dates (YYYY-MM-DD) or no dates at all.             *)

DigitVal(c) == IndexOf(c, digits) - 1

IsLeap(y) == (y % 4 = 0 /\ y % 100 # 0) \/ y % 400 = 0

DaysInMonth(y, m) ==
    IF m = 2 THEN (IF IsLeap(y) THEN 29 ELSE 28)
    ELSE IF m \in {4, 6, 9, 11} THEN 30 ELSE 31

ParseDate(s) ==
    IF /\ Len(s) = 10
       /\ s[5] = "-" /\ s[8] = "-"
       /\ \A i \in {1, 2, 3, 4, 6, 7, 9, 10} : IsDigit(s[i])
    THEN LET y == DigitVal(s[1]) * 1000 + DigitVal(s[2]) * 100
                  + DigitVal(s[3]) * 10 + DigitVal(s[4])
             m == DigitVal(s[6]) * 10 + DigitVal(s[7])
             d == DigitVal(s[9]) * 10 + DigitVal(s[10])
         IN  IF m \in 1..12 /\ d \in 1..DaysInMonth(y, m)
             THEN Timestamp(y, m, d) ELSE NaT
    ELSE NaT

ToDatetime(v) ==
    IF v.t = "ts" THEN v
    ELSE IF v.t = "str" THEN ParseDate(v.s)
    ELSE NaT

\* Series.dt.day_name(): the proleptic Gregorian ordinal (1 = Monday 0001-01-01)
RECURSIVE DaysBeforeMonth(_, _)
DaysBeforeMonth(y, m) ==
    IF m = 1 THEN 0 ELSE DaysBeforeMonth(y, m - 1) + DaysInMonth(y, m - 1)

Ordinal(ts) ==
    LET p == ts.y - 1
    IN  p * 365 + (p \div 4) - (p \div 100) + (p \div 400)
        + DaysBeforeMonth(ts.y, ts.m) + ts.d

day_names == << <<"M", "o", "n", "d", "a", "y">>,
                <<"T", "u", "e", "s", "d", "a", "y">>,
                <<"W", "e", "d", "n", "e", "s", "d", "a", "y">>,
                <<"T", "h", "u", "r", "s", "d", "a", "y">>,
                <<"F", "r", "i", "d", "a", "y">>,
                <<"S", "a", "t", "u", "r", "d", "a", "y">>,
                <<"S", "u", "n", "d", "a", "y">> >>

DayName(ts) == Str(day_names[((Ordinal(ts) + 6) % 7) + 1])

\* Series.dt.quarter
Quarter(ts) == ((ts.m - 1) \div 3) + 1

---------------------------------------------------------------------------
(* email_pattern: ^[a-zA-Z0-9._%+-]+@[a-zA-Z0-9.-]+\.[a-zA-Z]{2,}$         *)

LocalChar(c) == IsLetter(c) \/ IsDigit(c) \/ c \in {".", "_", "%", "+", "-"}
DomainChar(c) == IsLetter(c) \/ IsDigit(c) \/ c \in {".", "-"}

EmailMatch(s) ==
    \E i \in DOMAIN s, j \in DOMAIN s :
        /\ i > 1 /\ s[i] = "@"
        /\ \A k \in 1..(i - 1) : LocalChar(s[k])
        /\ j > i + 1 /\ s[j] = "."
        /\ \A k \in (i + 1)..(j - 1) : DomainChar(s[k])
        /\ Len(s) - j >= 2
        /\ \A k \in (j + 1)..Len(s) : IsLetter(s[k])

\* Series.str.match(email_pattern, na=False) on one value
StrMatchEmail(v) == IF IsStr(v) THEN EmailMatch(v.s) ELSE FALSE

---------------------------------------------------------------------------
(* DataFrame operations *)

\* 'col' in df.columns
Has(t, c) == c \in t.columns

\* df[col] as the sequence of its values
Column(t, c) == [i \in DOMAIN t.rows |-> t.rows[i].cell[c]]

\* the elements of s at the positions in P, in order
SelectAt(s, P) ==
    LET F[i \in 0..Len(s)] ==
            IF i = 0 THEN <<>>
            ELSE IF i \in P THEN Append(F[i - 1], s[i]) ELSE F[i - 1]
    IN  F[Len(s)]

\* df[mask]: the rows whose mask is True, in order, index labels kept
Filter(t, mask) ==
    [t EXCEPT !.rows = SelectAt(t.rows, {i \in DOMAIN t.rows : mask[i]})]

\* df[col] = values, row by row; creates the column when it is new
Assign(t, c, values, dt) ==
    LET cs == t.columns \cup {c}
    IN  [columns |-> cs,
         dtype |-> [k \in cs |-> IF k = c THEN dt ELSE t.dtype[k]],
         rows |-> [i \in DOMAIN t.rows |->
                     [t.rows[i] EXCEPT
                         !.cell = [k \in cs |-> IF k = c THEN values[i]
                                                ELSE t.rows[i].cell[k]]]]]

\* DataFrame.dropna(subset=cols)
DropNa(t, cols) ==
    Filter(t, [i \in DOMAIN t.rows |-> \A c \in cols : ~IsNull(t.rows[i].cell[c])])

\* the non-null values of a sequence of cells
NotNull(xs) == SelectSeq(xs, LAMBDA v : ~IsNull(v))

\* the dtype read_csv infers for a column from its values
InferDtype(xs) ==
    IF xs = <<>> \/ \E i \in DOMAIN xs : IsStr(xs[i]) THEN "object" ELSE "float64"

\* Series.fillna(value)
FillNa(t, c, value, dt) ==
    Assign(t, c,
           [i \in DOMAIN t.rows |->
               IF IsNull(t.rows[i].cell[c]) THEN value ELSE t.rows[i].cell[c]],
           dt)

\* Series.median(): NaN is skipped; NaN when nothing is left
Median(xs) ==
    LET vals == NotNull(xs)
        n == Len(vals)
        Kth(k) == CHOOSE v \in Range(vals) :
                    /\ Cardinality({i \in DOMAIN vals : RLt(vals[i], v)}) < k
                    /\ k <= Cardinality({i \in DOMAIN vals : RLe(vals[i], v)})
    IN  IF n = 0 THEN NaN
        ELSE IF n % 2 = 1 THEN Kth((n + 1) \div 2)
        ELSE RDiv(RAdd(Kth(n \div 2), Kth((n \div 2) + 1)), Num(2))

\* Series.mean(): NaN is skipped; NaN when nothing is left
Mean(xs) ==
    LET vals == NotNull(xs)
    IN  IF vals = <<>> THEN NaN ELSE RDiv(RSum(vals), Num(Len(vals)))

\* Series.std(): the sample standard deviation (ddof=1), NaN below two values.
\* The root is kept symbolic: [t |-> "sqrt", of |-> v] is the square root of v.
Std(xs) ==
    LET vals == NotNull(xs)
        n == Len(vals)
        m == Mean(xs)
        sq == [i \in DOMAIN vals |-> RMul(RSub(vals[i], m), RSub(vals[i], m))]
    IN  IF n < 2 THEN NaN ELSE [t |-> "sqrt", of |-> RDiv(RSum(sq), Num(n - 1))]

\* abs(x - mean) <= 3 * std; a comparison with NaN is False
WithinThreeStd(x, mean, std) ==
    IF IsNull(mean) \/ IsNull(std) THEN FALSE
    ELSE LET dev == RAbs(RSub(x, mean))
         IN  RLe(RMul(dev, dev), RMul(Num(9), std.of))

\* Series.nunique()
NUnique(xs) == Cardinality(Range(NotNull(xs)))

\* the .str accessor exists only on object columns
StrAccessor(t, c) == t.dtype[c] = "object"

---------------------------------------------------------------------------
(* clean_data, stage 1: missing values *)

critical_columns == {"order_id", "customer_id", "order_date", "total_amount"}

Unknown == <<"U", "n", "k", "n", "o", "w", "n">>

\* faulty variant: the dropna of the critical columns is left out
HandleMissingValuesNoDrop(t) ==
    LET t1 == IF Has(t, "customer_age")
              THEN FillNa(t, "customer_age", Median(Column(t, "customer_age")),
                          "float64")
              ELSE t
    IN  IF Has(t1, "product_category")
        THEN FillNa(t1, "product_category", Str(Unknown), "object")
        ELSE t1

HandleMissingValues(t) ==
    LET t1 == IF Has(t, "customer_age")
              THEN FillNa(t, "customer_age", Median(Column(t, "customer_age")),
                          "float64")
              ELSE t
        t2 == IF Has(t1, "product_category")
              THEN FillNa(t1, "product_category", Str(Unknown), "object")
              ELSE t1
    IN  DropNa(t2, critical_columns \cap t2.columns)

(* stage 2: df.drop_duplicates(subset=['order_id'], keep='first') *)

\* faulty variant: keep='last'
DropDuplicatesKeepLast(t) ==
    [t EXCEPT !.rows =
        SelectAt(t.rows,
                 {i \in DOMAIN t.rows :
                    \A j \in (i + 1)..Len(t.rows) :
                        t.rows[j].cell["order_id"] # t.rows[i].cell["order_id"]})]

\* faulty variant: duplicates are looked for among the rows whose order_date parses,
\* as if the date stage ran first
DropDuplicatesAfterParse(t) ==
    [t EXCEPT !.rows =
        SelectAt(t.rows,
                 {i \in DOMAIN t.rows :
                    \A j \in 1..(i - 1) :
                        \/ t.rows[j].cell["order_id"] # t.rows[i].cell["order_id"]
                        \/ /\ Has(t, "order_date")
                           /\ ToDatetime(t.rows[j].cell["order_date"]) = NaT})]

DropDuplicates(t) ==
    [t EXCEPT !.rows =
        SelectAt(t.rows,
                 {i \in DOMAIN t.rows :
                    \A j \in 1..(i - 1) :
                        t.rows[j].cell["order_id"] # t.rows[i].cell["order_id"]})]

(* stage 3: data types *)

CleanOrderDate(t) ==
    IF Has(t, "order_date")
    THEN DropNa(Assign(t, "order_date",
                       [i \in DOMAIN t.rows |->
                           ToDatetime(t.rows[i].cell["order_date"])],
                       "datetime64[ns]"),
                {"order_date"})
    ELSE t

CleanCustomerEmail(t) ==
    IF Has(t, "customer_email")
    THEN Filter(t, [i \in DOMAIN t.rows |->
                      StrMatchEmail(t.rows[i].cell["customer_email"])])
    ELSE t

\* astype(str) of a string or of a missing value
AsTypeStr(v) == IF IsStr(v) THEN v.s ELSE <<"n", "a", "n">>

PhoneDigits(v) ==
    LET d == DigitsOnly(AsTypeStr(v))
    IN  IF d = <<>> THEN NaN ELSE Str(d)

CleanCustomerPhone(t) ==
    IF Has(t, "customer_phone")
    THEN Assign(t, "customer_phone",
                [i \in DOMAIN t.rows |->
                    PhoneDigits(t.rows[i].cell["customer_phone"])],
                "object")
    ELSE t

(* stage 4: outliers *)

\* faulty variant: >= 0
PositiveOrZero(v) == IsNum(v) /\ RLe(Num(0), v)

\* df[c] > 0 on one value; NaN > 0 is False
Positive(v) == IsNum(v) /\ RLt(Num(0), v)

KeepPositive(t, c) ==
    IF Has(t, c)
    THEN Filter(t, [i \in DOMAIN t.rows |-> Positive(t.rows[i].cell[c])])
    ELSE t

PositiveRows(t) ==
    KeepPositive(KeepPositive(KeepPositive(t, "quantity"), "unit_price"),
                 "total_amount")

\* faulty variant: abs() is left out, so only high amounts are outliers
RemoveOutliersNoAbs(t, mean, std) ==
    Filter(t, [i \in DOMAIN t.rows |->
                 IF IsNull(mean) \/ IsNull(std) THEN FALSE
                 ELSE LET dev == RSub(t.rows[i].cell["total_amount"], mean)
                      IN  dev.n <= 0 \/ RLe(RMul(dev, dev), RMul(Num(9), std.of))])

RemoveOutliers(t, mean, std) ==
    Filter(t, [i \in DOMAIN t.rows |->
                 WithinThreeStd(t.rows[i].cell["total_amount"], mean, std)])

(* stage 5: categorical data *)

TitleStrip(v) == IF IsStr(v) THEN Str(Strip(Title(v.s))) ELSE v

Male == <<"M", "a", "l", "e">>
Female == <<"F", "e", "m", "a", "l", "e">>

gender_mapping ==
    [k \in {<<"M">>, <<"m">>, <<"m", "a", "l", "e">>, <<"M", "A", "L", "E">>,
            <<"F">>, <<"f">>, <<"f", "e", "m", "a", "l", "e">>,
            <<"F", "E", "M", "A", "L", "E">>} |->
        IF k \in {<<"M">>, <<"m">>, <<"m", "a", "l", "e">>, <<"M", "A", "L", "E">>}
        THEN Male ELSE Female]

\* Series.map(gender_mapping).fillna('Unknown') on one value
MapGender(v) ==
    IF IsStr(v) /\ v.s \in DOMAIN gender_mapping
    THEN Str(gender_mapping[v.s]) ELSE Str(Unknown)

StandardizeCategorical(t) ==
    LET t1 == IF Has(t, "product_category")
              THEN Assign(t, "product_category",
                          [i \in DOMAIN t.rows |->
                              TitleStrip(t.rows[i].cell["product_category"])],
                          "object")
              ELSE t
        t2 == IF Has(t1, "customer_gender")
              THEN Assign(t1, "customer_gender",
                          [i \in DOMAIN t1.rows |->
                              MapGender(t1.rows[i].cell["customer_gender"])],
                          "object")
              ELSE t1
    IN  IF Has(t2, "payment_method")
        THEN Assign(t2, "payment_method",
                    [i \in DOMAIN t2.rows |->
                        TitleStrip(t2.rows[i].cell["payment_method"])],
                    "object")
        ELSE t2

(* stage 6: derived columns *)

bins == <<0, 25, 35, 50, 65, 100>>
labels == << <<"1", "8", "-", "2", "5">>, <<"2", "6", "-", "3", "5">>,
             <<"3", "6", "-", "5", "0">>, <<"5", "1", "-", "6", "5">>,
             <<"6", "5", "+">> >>

\* pd.cut(x, bins, labels): the bin (bins[k], bins[k+1]] holding x, else NaN
Cut(v) ==
    IF IsNum(v) /\ \E k \in DOMAIN labels :
                      RLt(Num(bins[k]), v) /\ RLe(v, Num(bins[k + 1]))
    THEN Str(labels[CHOOSE k \in DOMAIN labels :
                      RLt(Num(bins[k]), v) /\ RLe(v, Num(bins[k + 1]))])
    ELSE NaN

DateParts(t) ==
    IF Has(t, "order_date")
    THEN LET date == Column(t, "order_date")
             rows == DOMAIN t.rows
             a == Assign(t, "order_year", [i \in rows |-> Num(date[i].y)], "int64")
             b == Assign(a, "order_month", [i \in rows |-> Num(date[i].m)], "int64")
             c == Assign(b, "order_day", [i \in rows |-> Num(date[i].d)], "int64")
             d == Assign(c, "order_weekday", [i \in rows |-> DayName(date[i])],
                         "object")
         IN  Assign(d, "order_quarter", [i \in rows |-> Num(Quarter(date[i]))],
                    "int64")
    ELSE t

AgeGroup(t) ==
    IF Has(t, "customer_age")
    THEN Assign(t, "age_group",
                [i \in DOMAIN t.rows |-> Cut(t.rows[i].cell["customer_age"])],
                "category")
    ELSE t

RevenuePerItem(t) ==
    IF Has(t, "total_amount") /\ Has(t, "quantity")
    THEN Assign(t, "revenue_per_item",
                [i \in DOMAIN t.rows |->
                    RDiv(t.rows[i].cell["total_amount"], t.rows[i].cell["quantity"])],
                "float64")
    ELSE t

CreateDerivedColumns(t) == RevenuePerItem(AgeGroup(DateParts(t)))

---------------------------------------------------------------------------
(* The input tables.  A table has one of the column sets below and between *)
(* one and MaxRows rows; a row is the valid row Base changed in at most    *)
(* one of the theme's varying columns.  A second family holds up to        *)
(* MaxOrders orders with distinct order_ids whose total_amount takes three *)
(* levels, for the statistics of the outlier filter; the quantity of its   *)
(* last order is either valid or 0.                                        *)

MaxRows == 2
MaxOrders == 12

S_A == <<"A">>
S_date == <<"2", "0", "2", "3", "-", "0", "1", "-", "1", "5">>
S_leapday == <<"2", "0", "2", "4", "-", "0", "2", "-", "2", "9">>
S_feb30 == <<"2", "0", "2", "3", "-", "0", "2", "-", "3", "0">>
S_email == <<"a", "@", "b", ".", "c", "o">>
S_notemail == <<"n", "o", "t", "-", "a", "n", "-", "e", "m", "a", "i", "l">>
S_phone == <<"5", "5", "5", "-", "1", "2", "3", "4">>
S_na == <<"n", "/", "a">>
S_books == <<"b", "o", "o", "k", "s">>
S_toys == <<" ", "t", "o", "y", "s">>
S_cod == <<"c", "o", "d">>
S_paypal == <<"P", "A", "Y", "P", "A", "L">>

AllColumns ==
    {"order_id", "customer_id", "order_date", "total_amount", "quantity",
     "unit_price", "customer_age", "customer_email", "customer_phone",
     "product_category", "customer_gender", "payment_method"}

Base ==
    [c \in AllColumns |->
        CASE c = "order_id" -> Num(1)
          [] c = "customer_id" -> Str(S_A)
          [] c = "order_date" -> Str(S_date)
          [] c = "total_amount" -> Num(100)
          [] c = "quantity" -> Num(2)
          [] c = "unit_price" -> Num(50)
          [] c = "customer_age" -> Num(30)
          [] c = "customer_email" -> Str(S_email)
          [] c = "customer_phone" -> Str(S_phone)
          [] c = "product_category" -> Str(S_books)
          [] c = "customer_gender" -> Str(<<"M">>)
          [] c = "payment_method" -> Str(S_cod)]

Other(c) ==
    CASE c = "order_id" -> {NaN, Num(2)}
      [] c = "customer_id" -> {NaN}
      [] c = "order_date" -> {NaN, Str(S_feb30), Str(S_leapday)}
      [] c = "total_amount" -> {NaN, Num(-10)}
      [] c = "quantity" -> {NaN, Num(0)}
      [] c = "unit_price" -> {Num(-1)}
      [] c = "customer_age" -> {NaN, Num(70)}
      [] c = "customer_email" -> {NaN, Str(S_notemail)}
      [] c = "customer_phone" -> {NaN, Str(S_na)}
      [] c = "product_category" -> {NaN, Str(S_toys)}
      [] c = "customer_gender" ->
            {NaN, Str(<<"M", "A", "L", "E">>), Str(Male), Str(<<"x">>),
             Str(<<"f">>)}
      [] c = "payment_method" -> {NaN, Str(S_paypal)}

Themes ==
    LET All(cs) == [columns |-> cs, varying |-> cs]
    IN  { All({"order_id", "customer_id", "order_date", "total_amount", "quantity"}),
          All({"order_id", "order_date", "customer_gender"}),
          All({"order_id", "order_date", "customer_email", "customer_phone"}),
          All({"order_id", "order_date", "customer_age", "product_category",
               "payment_method"}),
          All({"order_id", "customer_id", "order_date", "unit_price"}),
          All({"customer_id", "total_amount"}),
          All({"order_id", "customer_id", "total_amount"}),
          [columns |-> AllColumns,
           varying |-> {"order_id", "total_amount", "customer_gender"}] }

Restrict(f, cs) == [c \in cs |-> f[c]]

RowsOver(th) ==
    LET changed == UNION {{[Base EXCEPT ![c] = v] : v \in Other(c)} :
                            c \in th.varying}
    IN  {Restrict(r, th.columns) : r \in {Base} \cup changed}

\* the frame read_csv builds from the rows of a file: a RangeIndex, and the
\* dtype of each column inferred from its values
Frame(cs, cells) ==
    [columns |-> cs,
     dtype |-> [c \in cs |-> InferDtype([i \in DOMAIN cells |-> cells[i][c]])],
     rows |-> [i \in DOMAIN cells |-> [index |-> i - 1, cell |-> cells[i]]]]

SmallTables ==
    UNION {UNION {{Frame(th.columns, cells) : cells \in [1..n -> RowsOver(th)]} :
                    n \in 1..MaxRows} : th \in Themes}

Levels == <<1, 2, 20>>

OrderColumns ==
    {"order_id", "customer_id", "order_date", "total_amount", "quantity"}

OrderRow(i, amount, quantity) ==
    Restrict([Base EXCEPT !["order_id"] = Num(i),
                          !["total_amount"] = Num(amount),
                          !["quantity"] = Num(quantity)],
             OrderColumns)

OrderTables ==
    {Frame(OrderColumns,
           [i \in 1..x[1] |->
               OrderRow(i,
                        IF i <= x[2] THEN Levels[1]
                        ELSE IF i <= x[2] + x[3] THEN Levels[2] ELSE Levels[3],
                        IF i = x[1] THEN x[4] ELSE 2)]) :
        x \in {y \in (1..MaxOrders) \X (0..MaxOrders) \X (0..MaxOrders) \X {0, 2} :
                 y[2] + y[3] <= y[1]}}

Tables == SmallTables \cup OrderTables

---------------------------------------------------------------------------
(* main: load_data *)

Init ==
    /\ raw \in Tables \cup {None}
    /\ pc = "load"
    /\ df = None
    /\ mean_amount = None
    /\ std_amount = None
    /\ cleaned_df = <<>>
    /\ output = None
    /\ error = "none"

\* pd.read_csv succeeds: df is the loaded frame, and main calls clean_data
LoadData ==
    /\ pc = "load"
    /\ raw # None
    /\ df' = raw
    /\ pc' = "missing"
    /\ UNCHANGED <<raw, mean_amount, std_amount, cleaned_df, output, error>>

\* FileNotFoundError is caught, load_data returns None and main returns
LoadDataNotFound ==
    /\ pc = "load"
    /\ raw = None
    /\ pc' = "done"
    /\ UNCHANGED <<raw, df, mean_amount, std_amount, cleaned_df, output, error>>

---------------------------------------------------------------------------
(* clean_data, one action per numbered stage of the function *)

Raise(e) ==
    /\ pc' = "aborted"
    /\ error' = e

Stage1 ==
    /\ pc = "missing"
    /\ df' = HandleMissingValues(df)
    /\ pc' = "duplicates"
    /\ UNCHANGED <<raw, mean_amount, std_amount, cleaned_df, output, error>>

Stage2 ==
    /\ pc = "duplicates"
    /\ Has(df, "order_id")
    /\ df' = DropDuplicates(df)
    /\ pc' = "types"
    /\ UNCHANGED <<raw, mean_amount, std_amount, cleaned_df, output, error>>

\* df.drop_duplicates(subset=['order_id']) without an order_id column
Stage2KeyError ==
    /\ pc = "duplicates"
    /\ ~Has(df, "order_id")
    /\ Raise("KeyError")
    /\ UNCHANGED <<raw, df, mean_amount, std_amount, cleaned_df, output>>

EmailAccessorFails(t) == Has(t, "customer_email") /\ ~StrAccessor(t, "customer_email")

Stage3 ==
    /\ pc = "types"
    /\ ~EmailAccessorFails(df)
    /\ df' = CleanCustomerPhone(CleanCustomerEmail(CleanOrderDate(df)))
    /\ pc' = "outliers"
    /\ UNCHANGED <<raw, mean_amount, std_amount, cleaned_df, output, error>>

\* df['customer_email'].str on a column that holds no string
Stage3AttributeError ==
    /\ pc = "types"
    /\ EmailAccessorFails(df)
    /\ df' = CleanOrderDate(df)
    /\ Raise("AttributeError")
    /\ UNCHANGED <<raw, mean_amount, std_amount, cleaned_df, output>>

Stage4 ==
    /\ pc = "outliers"
    /\ IF Has(df, "total_amount")
       THEN LET t == PositiveRows(df)
                m == Mean(Column(t, "total_amount"))
                sd == Std(Column(t, "total_amount"))
            IN  /\ mean_amount' = m
                /\ std_amount' = sd
                /\ df' = RemoveOutliers(t, m, sd)
       ELSE /\ df' = KeepPositive(KeepPositive(df, "quantity"), "unit_price")
            /\ UNCHANGED <<mean_amount, std_amount>>
    /\ pc' = "categorical"
    /\ UNCHANGED <<raw, cleaned_df, output, error>>

CategoryAccessorFails(t) ==
    \/ Has(t, "product_category") /\ ~StrAccessor(t, "product_category")
    \/ Has(t, "payment_method") /\ ~StrAccessor(t, "payment_method")

Stage5 ==
    /\ pc = "categorical"
    /\ ~CategoryAccessorFails(df)
    /\ df' = StandardizeCategorical(df)
    /\ pc' = "derived"
    /\ UNCHANGED <<raw, mean_amount, std_amount, cleaned_df, output, error>>

\* .str.title() on a column that holds no string
Stage5AttributeError ==
    /\ pc = "categorical"
    /\ CategoryAccessorFails(df)
    /\ Raise("AttributeError")
    /\ UNCHANGED <<raw, df, mean_amount, std_amount, cleaned_df, output>>

Stage6 ==
    /\ pc = "derived"
    /\ df' = CreateDerivedColumns(df)
    /\ pc' = "validation"
    /\ UNCHANGED <<raw, mean_amount, std_amount, cleaned_df, output, error>>

\* the report reads df['order_id'] and df['order_date']; then return df
Stage7 ==
    /\ pc = "validation"
    /\ Has(df, "order_id") /\ Has(df, "order_date")
    /\ cleaned_df' = Append(cleaned_df, df)
    /\ pc' = "returned"
    /\ UNCHANGED <<raw, df, mean_amount, std_amount, output, error>>

Stage7KeyError ==
    /\ pc = "validation"
    /\ ~(Has(df, "order_id") /\ Has(df, "order_date"))
    /\ Raise("KeyError")
    /\ UNCHANGED <<raw, df, mean_amount, std_amount, cleaned_df, output>>

CleanData ==
    \/ Stage1 \/ Stage2 \/ Stage2KeyError \/ Stage3 \/ Stage3AttributeError
    \/ Stage4 \/ Stage5 \/ Stage5AttributeError \/ Stage6 \/ Stage7
    \/ Stage7KeyError

---------------------------------------------------------------------------
(* main: generate_data_profile and save_cleaned_data *)

\* len(df) / df['customer_id'].nunique() divides two Python ints
ProfileDividesByZero(t) ==
    Has(t, "customer_id") /\ NUnique(Column(t, "customer_id")) = 0

GenerateDataProfile ==
    /\ pc = "returned"
    /\ ~ProfileDividesByZero(cleaned_df[1])
    /\ pc' = "save"
    /\ UNCHANGED <<raw, df, mean_amount, std_amount, cleaned_df, output, error>>

GenerateDataProfileZeroDivision ==
    /\ pc = "returned"
    /\ ProfileDividesByZero(cleaned_df[1])
    /\ Raise("ZeroDivisionError")
    /\ UNCHANGED <<raw, df, mean_amount, std_amount, cleaned_df, output>>

\* df.to_csv either writes the file or raises; the exception is caught
SaveCleanedData ==
    /\ pc = "save"
    /\ \E written \in BOOLEAN :
          output' = IF written THEN cleaned_df[1] ELSE None
    /\ pc' = "done"
    /\ UNCHANGED <<raw, df, mean_amount, std_amount, cleaned_df, error>>

Next ==
    \/ LoadData \/ LoadDataNotFound
    \/ CleanData
    \/ GenerateDataProfile \/ GenerateDataProfileZeroDivision
    \/ SaveCleanedData

Spec == Init /\ [][Next]_vars

---------------------------------------------------------------------------
(* clean_data as a function: applied to a table, then to its own result *)

InitClean ==
    /\ raw \in Tables
    /\ pc = "missing"
    /\ df = raw
    /\ mean_amount = None
    /\ std_amount = None
    /\ cleaned_df = <<>>
    /\ output = None
    /\ error = "none"

\* clean_data(clean_data(t)): the second call gets the first call's result
CleanAgain ==
    /\ pc = "returned"
    /\ Len(cleaned_df) = 1
    /\ df' = cleaned_df[1]
    /\ pc' = "missing"
    /\ UNCHANGED <<raw, mean_amount, std_amount, cleaned_df, output, error>>

NextClean == CleanData \/ CleanAgain

SpecClean == InitClean /\ [][NextClean]_vars

---------------------------------------------------------------------------
(* Properties *)

Cleaned == Len(cleaned_df) >= 1
Out == cleaned_df[1]
RawRows == Range(raw.rows)
OutRows == Range(Out.rows)

\* the raw row has a value in every critical column the file has
PassesStage1(p) == \A c \in critical_columns \cap raw.columns : ~IsNull(p.cell[c])

\* the raw row is in the cleaned table
Survives(p) == \E r \in OutRows : r.index = p.index

\* C1: clean_data applied to its own result returns a table with the same
\* columns and the same rows in the same order as that result.
C1_Idempotent ==
    Len(cleaned_df) = 2 =>
        /\ cleaned_df[2].columns = cleaned_df[1].columns
        /\ cleaned_df[2].rows = cleaned_df[1].rows

\* C2 as claimed: every row of a returned table is within three standard
\* deviations of the mean, both computed over the returned table itself.
C2_BoundedOverOutput ==
    (Cleaned /\ Has(Out, "total_amount")) =>
        \A r \in OutRows :
            WithinThreeStd(r.cell["total_amount"],
                           Mean(Column(Out, "total_amount")),
                           Std(Column(Out, "total_amount")))

\* C2 as amended: every row the outlier step keeps is within three sample
\* standard deviations of the mean, both computed over the rows that the
\* positivity filters left, i.e. the rows the outlier filter was given.
C2_BoundedOverFilterInput ==
    [][(pc = "outliers" /\ Has(df, "total_amount")) =>
          LET amounts == Column(PositiveRows(df), "total_amount")
          IN  \A r \in Range(df'.rows) :
                  WithinThreeStd(r.cell["total_amount"], Mean(amounts),
                                 Std(amounts))]_vars

\* C2 witness: the outlier filter had a defined deviation, removed a row
\* with a positive amount beyond the bound, and kept others.
C2_Witness ==
    /\ pc = "categorical"
    /\ Has(df, "total_amount")
    /\ ~IsNull(std_amount)
    /\ df.rows # <<>>
    /\ \E p \in RawRows :
          /\ PassesStage1(p)
          /\ \A c \in {"quantity", "unit_price", "total_amount"} \cap raw.columns :
                p.cell[c].t = "num" /\ p.cell[c].n > 0
          /\ ~WithinThreeStd(p.cell["total_amount"], mean_amount, std_amount)

\* C3: whatever subset of the recognized columns the table has, no exception
\* escapes clean_data, and the returned table has no recognized column that
\* the input lacked.
C3_ColumnGating ==
    /\ ~(pc = "aborted" /\ cleaned_df = <<>>)
    /\ Cleaned => Out.columns \cap AllColumns = raw.columns

ScenarioColumns == OrderColumns

\* a row with the critical values present, a date that parses and positive
\* total_amount and quantity
ValidRow(p) ==
    /\ \A c \in critical_columns : ~IsNull(p.cell[c])
    /\ ToDatetime(p.cell["order_date"]) # NaT
    /\ Positive(p.cell["total_amount"])
    /\ Positive(p.cell["quantity"])

\* C4: a table of one valid row comes back as that one row, its input
\* fields kept and the date parts and revenue_per_item added.
C4_SingleValidRowKept ==
    (/\ Cleaned
     /\ raw.columns = ScenarioColumns
     /\ Len(raw.rows) = 1
     /\ ValidRow(raw.rows[1])) =>
        /\ Len(Out.rows) = 1
        /\ LET p == raw.rows[1].cell
               r == Out.rows[1].cell
               ts == ToDatetime(p["order_date"])
           IN  /\ \A c \in ScenarioColumns \ {"order_date"} : r[c] = p[c]
               /\ r["order_date"] = ts
               /\ r["order_year"] = Num(ts.y)
               /\ r["order_month"] = Num(ts.m)
               /\ r["order_day"] = Num(ts.d)
               /\ r["order_weekday"] = DayName(ts)
               /\ r["order_quarter"] = Num(Quarter(ts))
               /\ r["revenue_per_item"] = RDiv(p["total_amount"], p["quantity"])

\* C5: no two rows of a returned table share an order_id, and a surviving
\* row is never a later occurrence of an order_id of which an earlier
\* occurrence passed the stage-1 missing-value drop.
C5_Uniqueness ==
    Cleaned =>
        /\ \A i, j \in DOMAIN Out.rows :
              i # j => Out.rows[i].cell["order_id"] # Out.rows[j].cell["order_id"]
        /\ \A p, q \in RawRows :
              (/\ p.index < q.index
               /\ p.cell["order_id"] = q.cell["order_id"]
               /\ PassesStage1(p)) => ~Survives(q)

\* C5 witness: two raw rows share an order_id, both pass stage 1, and the
\* earlier one is in the returned table.
C5_Witness ==
    /\ Cleaned
    /\ \E p, q \in RawRows :
          /\ p.index < q.index
          /\ p.cell["order_id"] = q.cell["order_id"]
          /\ PassesStage1(p) /\ PassesStage1(q)
          /\ Survives(p)

\* C6: in a returned table every critical column that the input has holds a
\* value in every row, and a raw row whose order_date is present but does
\* not parse is absent.
C6_CriticalsComplete ==
    Cleaned =>
        /\ \A r \in OutRows : \A c \in critical_columns \cap raw.columns :
              ~IsNull(r.cell[c])
        /\ \A p \in RawRows :
              (/\ Has(raw, "order_date")
               /\ IsStr(p.cell["order_date"])
               /\ ToDatetime(p.cell["order_date"]) = NaT) => ~Survives(p)

\* C6 witness: a returned table with a row, from a file that also held a row
\* with an unparseable date.
C6_Witness ==
    /\ Cleaned
    /\ Out.rows # <<>>
    /\ \E p \in RawRows :
          /\ Has(raw, "order_date")
          /\ IsStr(p.cell["order_date"])
          /\ ToDatetime(p.cell["order_date"]) = NaT

PositiveColumns == {"quantity", "unit_price", "total_amount"}

\* C7: in a returned table quantity, unit_price and total_amount, where
\* present, are numbers greater than 0 in every row, so that the divisor of
\* revenue_per_item is never 0; rows with other values are absent.
C7_Positivity ==
    Cleaned =>
        /\ \A r \in OutRows : \A c \in PositiveColumns \cap Out.columns :
              r.cell[c].t = "num" /\ r.cell[c].n > 0 /\ r.cell[c].d > 0
        /\ \A p \in RawRows : \A c \in PositiveColumns \cap raw.columns :
              (p.cell[c].t # "num" \/ p.cell[c].n <= 0) => ~Survives(p)

\* C7 witness: a returned table with a row and with revenue_per_item, from a
\* file that also held a row with a zero, negative or missing value.
C7_Witness ==
    /\ Cleaned
    /\ Out.rows # <<>>
    /\ Has(Out, "revenue_per_item")
    /\ \E p \in RawRows : \E c \in PositiveColumns \cap raw.columns :
          p.cell[c].t # "num" \/ p.cell[c].n <= 0

\* the raw value of the row with the given index label
RawCell(idx, c) == (CHOOSE p \in RawRows : p.index = idx).cell[c]

\* C8: customer_gender of a returned row is Male when the raw value is 'm' or
\* 'male' in any letter case, Female when it is 'f' or 'female' in any letter
\* case, and Unknown for every other value, a missing one included.
C8_GenderNormalized ==
    (Cleaned /\ Has(raw, "customer_gender")) =>
        \A r \in OutRows :
            LET v == RawCell(r.index, "customer_gender")
                g == r.cell["customer_gender"]
            IN  IF IsStr(v) /\ Lower(v.s) \in {<<"m">>, <<"m", "a", "l", "e">>}
                THEN g = Str(Male)
                ELSE IF IsStr(v) /\ Lower(v.s) \in
                                      {<<"f">>, <<"f", "e", "m", "a", "l", "e">>}
                THEN g = Str(Female)
                ELSE g = Str(Unknown)

\* C9: when load_data finds no file nothing is cleaned and nothing is
\* written; when it returns a table the run never aborts, the file is
\* written only after the profile, and what is written is what clean_data
\* returned.
C9_AbortOnlyOnLoadFailure ==
    /\ raw = None => (cleaned_df = <<>> /\ output = None /\ pc \in {"load", "done"})
    /\ raw # None => pc # "aborted"
    /\ pc = "save" => Cleaned
    /\ output # None => (pc = "done" /\ Cleaned /\ output = Out)

\* the first raw row, among those that pass stage 1, with its order_id
FirstOfItsOrder(p) ==
    /\ PassesStage1(p)
    /\ \A q \in RawRows :
          (q.index < p.index /\ PassesStage1(q)) =>
              q.cell["order_id"] # p.cell["order_id"]

\* C10: when the first stage-1 survivor with some order_id has an order_date
\* that does not parse, the returned table has no row with that order_id.
C10_FirstDuplicateDecides ==
    Cleaned =>
        \A p \in RawRows :
            (/\ Has(raw, "order_date")
             /\ FirstOfItsOrder(p)
             /\ ToDatetime(p.cell["order_date"]) = NaT) =>
                \A r \in OutRows : r.cell["order_id"] # p.cell["order_id"]

\* C10 witness: such a first row is followed by a row of the same order_id
\* that is valid in every column, and clean_data has returned.
C10_Witness ==
    /\ Cleaned
    /\ Has(raw, "order_date")
    /\ \E p, q \in RawRows :
          /\ FirstOfItsOrder(p)
          /\ ToDatetime(p.cell["order_date"]) = NaT
          /\ p.index < q.index
          /\ q.cell = Restrict(Base, raw.columns)
          /\ q.cell["order_id"] = p.cell["order_id"]

=============================================================================
